---- MODULE Spec2Model ----
(***************************************************************************)
(* A model of bumps/fitproblem.py: BaseFitProblem (one fitness),           *)
(* MultiFitProblem (weighted sub-models with a free-variable table) and    *)
(* Result (the fit result with its Monte Carlo ensemble).                  *)
(*                                                                         *)
(* Floats are modelled by a small domain of costs: non-negative integers,  *)
(* Inf for +infinity and NaN.  Parameter values are sample points          *)
(* 0..MaxVal; the points 0..MaxVal-1 lie inside every parameter's bounds,  *)
(* the point MaxVal lies outside.  The fitness objects, the parameters,    *)
(* the constraints function, the sampler and the local optimizer are       *)
(* external code: what they return or raise is chosen by the environment.  *)
(***************************************************************************)
EXTENDS Integers, Sequences, FiniteSets, TLC

\* ---------------------------------------------------------------- bounds
MaxModels == 2
NPar == 2
MaxVal == 1
MaxPoints == 3
MaxSamples == 2
MaxRows == 3
\* the finite soft limit a problem may be given
SoftLimit == 1

\* ------------------------------------------------------ program constants
Inf == 1000000000
NaN == -1
PenaltyNllf == 1000000

Pars == 1..NPar
Vals == 0..MaxVal

\* ------------------------------------------------------------- variables
VARIABLES
  pc,           \* "new": no problem object yet; "ready": constructed; "failed": the constructor raised
  kind,         \* "single" (BaseFitProblem) or "multi" (MultiFitProblem)
  nmodels,      \* number of fitness objects given to the constructor
  weights,      \* self.weights
  numpoints,    \* fitness.numpoints() of each fitness
  varying,      \* per parameter: its bounds are not a fixed point
  value,        \* per parameter: p.value
  parameters,   \* self._parameters, the varying parameters in order
  dof,          \* self.dof
  sub_dof,      \* the dof of each sub-model of a MultiFitProblem
  live,         \* the index whose binding the free-variable table holds live
  active,       \* self._active_model_index
  soft_limit,   \* self.soft_limit
  data,         \* the fitness data: "orig" or "synth" (resynthesized)
  last,         \* history: the last call on the problem and what it did
  res,          \* "none": no Result; "built": a Result exists
  solution,     \* Result.solution
  points,       \* Result.points, rows <<nllf, x>>
  rs            \* the running resample call: its position and locals

pvars == <<pc, kind, nmodels, weights, numpoints, varying, value, parameters,
           dof, sub_dof, live, active, soft_limit, data, last>>
rvars == <<res, solution, points, rs>>
vars == <<pvars, rvars>>

\* --------------------------------------------------------- float domain
IsNan(x) == x = NaN

Finite(x) == x # NaN /\ x # Inf

\* a + b on costs
Add(a, b) ==
  IF IsNan(a) \/ IsNan(b) THEN NaN
  ELSE IF a = Inf \/ b = Inf THEN Inf
  ELSE a + b

\* a <= b on costs: every comparison with NaN is false
Le(a, b) == ~IsNan(a) /\ ~IsNan(b) /\ a <= b

RECURSIVE SumSeq(_)
SumSeq(s) == IF s = <<>> THEN 0 ELSE Add(s[1], SumSeq(Tail(s)))

Min(a, b) == IF a <= b THEN a ELSE b

\* ---------------------------------------------------------- parameters
\* v in p.bounds
InBounds(v) == v \in 0..(MaxVal - 1)

\* the model (1-based) whose fitness.parameters() holds parameter p
Owner(p, n) == ((p - 1) % n) + 1

\* parameter.unique(self.model_parameters()): every parameter, once, in order
AllParameters(n) == IF n = 0 THEN <<>> ELSE [i \in 1..NPar |-> i]

\* parameter.varying(all_parameters)
VaryingOf(all, vy) == SelectSeq(all, LAMBDA p : vy[p])

\* Vectors of length k over the sample points
Vectors(k) == [1..k -> Vals]

VectorsT == [k \in 0..NPar |-> Vectors(k)]

\* no resample call is running
NoRs ==
  [pc |-> "idle", i |-> 0, samples |-> 0, restart |-> FALSE, pts |-> <<>>,
   x |-> <<>>, stop |-> "none"]

\* ------------------------------------------------------ the environment
\* What the external code does during one call: the step that fails (or
\* "none"), how it fails (an exception, or a KeyboardInterrupt), the sub-model
\* that fails, and what the priors, the constraints function and each
\* fitness.nllf() return.
Kinds == {"raise", "interrupt"}
PCosts == {0, 2}
CCosts == {0, Inf, NaN}
MCosts == {1, Inf, NaN}

Env(f, k, a, pp, cc, fn) ==
  [fail |-> f, kind |-> k, at |-> a, pparameter |-> pp, pconstraint |-> cc, fnllf |-> fn]

Ones(n) == [i \in 1..n |-> 1]

Quiet(n) == Env("none", "raise", 0, 0, 0, Ones(n))

\* what the fitness objects return: the first returns any cost, the others 1
FnCosts(n) == {[i \in 1..n |-> IF i = 1 THEN c ELSE 1] : c \in MCosts}

SetpEnvs(n) ==
  {Quiet(n)}
    \cup {Env("hook", k, 0, 0, 0, Ones(n)) : k \in Kinds}
    \cup {Env("update", k, a, 0, 0, Ones(n)) : k \in Kinds, a \in 0..(n - 1)}

EvalEnvs(n) ==
  {Env("none", "raise", 0, pp, cc, fn) : pp \in PCosts, cc \in CCosts, fn \in FnCosts(n)}
    \cup {Env("parameter", k, 0, 0, 0, Ones(n)) : k \in Kinds}
    \cup {Env("constraints", k, 0, pp, 0, Ones(n)) : k \in Kinds, pp \in PCosts}
    \cup {Env("model", k, a, pp, 0, Ones(n)) : k \in Kinds, a \in 0..(n - 1), pp \in PCosts}

NllfEnvs(n) == SetpEnvs(n) \cup EvalEnvs(n)

\* the environments and the vectors, tabulated by size
SetpEnvsT == [n \in 0..MaxModels |-> SetpEnvs(n)]
EvalEnvsT == [n \in 0..MaxModels |-> EvalEnvs(n)]
NllfEnvsT == [n \in 0..MaxModels |-> NllfEnvs(n)]

\* ------------------------------------------------------------- history
\* The last call on the problem: the operation, how it ended ("return",
\* "raise", "interrupt"), the value returned, the vector and the environment it
\* ran with, what it invoked (the assignments, the hook, model_update, the
\* model's nllf), the sub-models it touched with the binding live at each, and
\* for a call on a Result its arguments, the steps it ran and whether the
\* restoration after the resample loop ran ("none": it did not; "quiet": it
\* ran and nothing in it raised; "failed": a call in it raised).
NoLast ==
  [op |-> "none", out |-> "none", val |-> 0, given |-> FALSE, pvec |-> <<>>,
   env |-> Quiet(0), assigned |-> FALSE, hook |-> FALSE, update |-> FALSE,
   model |-> FALSE, touched |-> <<>>, args |-> <<>>, steps |-> {},
   cleanup |-> "none"]

\* -------------------------------------------------- construction, reset
ModelPointsFirst(n, np) == IF n = 0 THEN 0 ELSE np[1]

\* MultiFitProblem.model_points / BaseFitProblem.model_points
ModelPoints(n, np) == SumSeq([i \in 1..n |-> np[i]])

\* model_reset: the varying parameters, dof, and whether dof <= 0 makes it raise.
\* The fields are assigned before the test, so they are set even when it raises.
ModelResetOp(n, np, partial, vy) ==
  LET pars == VaryingOf(AllParameters(n), vy)
      d == ModelPoints(n, np) - (IF partial THEN 0 ELSE Len(pars))
  IN [parameters |-> pars, dof |-> d, raises |-> d <= 0]

\* weights=None becomes one weight of 1 per model; an explicit sequence is
\* stored as given
InitWeights(n, wgiven, w) == IF wgiven THEN w ELSE [i \in 1..n |-> 1]

\* BaseFitProblem.__init__: ends with model_reset()
BuildSingle ==
  LET r == ModelResetOp(1, numpoints, FALSE, varying)
  IN [ok |-> ~r.raises, weights |-> <<>>, parameters |-> r.parameters,
      dof |-> r.dof, sub_dof |-> <<>>, live |-> 0, active |-> 0]

\* MultiFitProblem.__init__: the sub-models (partial=True) are built first, then
\* the weights are stored, model 0 is made active and model_reset() runs
BuildMulti(n, wgiven, w) ==
  LET subs == [i \in 1..n |-> numpoints[i]]
      subsOk == \A i \in 1..n : subs[i] > 0
      r == ModelResetOp(n, numpoints, FALSE, varying)
  IN [ok |-> subsOk /\ n >= 1 /\ ~r.raises,
      weights |-> InitWeights(n, wgiven, w), parameters |-> r.parameters,
      dof |-> r.dof, sub_dof |-> subs, live |-> 0, active |-> 0]

Build(k, n, wgiven, w) == IF k = "single" THEN BuildSingle ELSE BuildMulti(n, wgiven, w)

\* explicit weights arguments: any length up to one more than the models, the
\* first weight 1 or 2, the others 1
WeightArgs == {[i \in 1..l |-> IF i = 1 THEN f ELSE 1] : l \in 0..(MaxModels + 1), f \in {1, 2}}

\* The constructor call.  When it raises no object comes to exist.
Construct(k, n, wgiven, w, soft) ==
  /\ pc = "new"
  /\ LET b == Build(k, n, wgiven, w) IN
       IF b.ok
       THEN /\ pc' = "ready"
            /\ kind' = k
            /\ nmodels' = n
            /\ weights' = b.weights
            /\ parameters' = b.parameters
            /\ dof' = b.dof
            /\ sub_dof' = b.sub_dof
            /\ live' = b.live
            /\ active' = b.active
            /\ soft_limit' = soft
            /\ last' = [NoLast EXCEPT !.op = "init", !.out = "return"]
       ELSE /\ pc' = "failed"
            /\ last' = [NoLast EXCEPT !.op = "init", !.out = "raise"]
            /\ UNCHANGED <<kind, nmodels, weights, parameters, dof, sub_dof,
                           live, active, soft_limit>>
  /\ UNCHANGED <<numpoints, varying, value, data, rvars>>

ModelResetAccumulates ==
  /\ pc = "ready"
  /\ LET r == ModelResetOp(nmodels, numpoints, FALSE, varying) IN
     /\ parameters' = r.parameters
     /\ dof' = dof - Len(r.parameters)
     /\ last' = [NoLast EXCEPT !.op = "model_reset",
                               !.out = IF dof - Len(r.parameters) <= 0 THEN "raise" ELSE "return"]
  /\ live' = (IF kind = "multi" THEN active ELSE live)
  /\ UNCHANGED <<pc, kind, nmodels, weights, numpoints, varying, value, sub_dof,
                 active, soft_limit, data, rvars>>

\* model_reset() called on an existing problem
ModelReset ==
  /\ pc = "ready"
  /\ LET r == ModelResetOp(nmodels, numpoints, FALSE, varying) IN
     /\ parameters' = r.parameters
     /\ dof' = r.dof
     /\ last' = [NoLast EXCEPT !.op = "model_reset",
                               !.out = IF r.raises THEN "raise" ELSE "return"]
  /\ live' = (IF kind = "multi" THEN active ELSE live)
  /\ UNCHANGED <<pc, kind, nmodels, weights, numpoints, varying, value, sub_dof,
                 active, soft_limit, data, rvars>>

\* The caller changes the bounds of parameter p between fixed and varying
SetBounds(p) ==
  /\ pc = "ready"
  /\ varying' = [varying EXCEPT ![p] = ~varying[p]]
  /\ last' = [NoLast EXCEPT !.op = "set_bounds", !.out = "return"]
  /\ UNCHANGED <<pc, kind, nmodels, weights, numpoints, value, parameters, dof,
                 sub_dof, live, active, soft_limit, data, rvars>>

Blank ==
  /\ kind = "single" /\ nmodels = 0 /\ weights = <<>> /\ parameters = <<>>
  /\ dof = 0 /\ sub_dof = <<>> /\ live = 0 /\ active = 0 /\ soft_limit = Inf
  /\ data = "orig" /\ last = NoLast
  /\ res = "none" /\ solution = <<>> /\ points = <<>> /\ rs = NoRs

InitBuild ==
  /\ pc = "new"
  /\ numpoints \in [1..MaxModels -> 0..MaxPoints]
  /\ varying \in [Pars -> BOOLEAN]
  /\ value = [p \in Pars |-> 0]
  /\ Blank

NextBuild ==
  \/ \E w \in WeightArgs, wgiven \in BOOLEAN, soft \in {Inf, SoftLimit} :
       \/ Construct("single", 1, FALSE, <<>>, soft)
       \/ \E n \in 0..MaxModels : Construct("multi", n, wgiven, IF wgiven THEN w ELSE <<>>, soft)
  \/ ModelReset
  \/ \E p \in Pars : SetBounds(p)

SpecBuild == InitBuild /\ [][NextBuild]_vars

\* ------------------------------------------------- setp, valid, getp
\* the index of parameter p in the list pars, 0 when it is not in the first k
IndexOf(pars, k, p) ==
  IF \E i \in 1..k : pars[i] = p THEN CHOOSE i \in 1..k : pars[i] = p ELSE 0

AssignFirst(val, pars, pvec) ==
  [p \in Pars |->
     IF Len(pars) > 0 /\ Len(pvec) > 0 /\ pars[1] = p THEN pvec[1] ELSE val[p]]

\* for v, p in zip(pvec, self._parameters): p.value = v
Assign(val, pars, pvec) ==
  [p \in Pars |->
     LET i == IndexOf(pars, Min(Len(pars), Len(pvec)), p)
     IN IF i = 0 THEN val[p] ELSE pvec[i]]

ValidFirst(pars, pvec) == Len(pvec) = 0 \/ Len(pars) = 0 \/ InBounds(pvec[1])

\* valid(pvec)
Valid(pars, pvec) == \A i \in 1..Min(Len(pars), Len(pvec)) : InBounds(pvec[i])

\* getp()
Getp(val, pars) == [i \in 1..Len(pars) |-> val[pars[i]]]

\* The models generator: it makes binding i live before yielding sub-model i
\* and makes the active one live again only when it is run to its end.  A
\* consumer that stops at sub-model at (0-based) leaves that binding live.
Cycle(lv, stopped, at) ==
  IF kind = "multi" THEN (IF stopped THEN at ELSE active) ELSE lv

\* setp(pvec): the assignments, the hook, model_update()
SetpOp(val, lv, pvec, e) ==
  LET v1 == Assign(val, parameters, pvec) IN
  IF e.fail = "hook"
  THEN [out |-> e.kind, value |-> v1, live |-> lv, hook |-> TRUE, update |-> FALSE]
  ELSE IF e.fail = "update"
  THEN [out |-> e.kind, value |-> v1, live |-> Cycle(lv, TRUE, e.at),
        hook |-> TRUE, update |-> TRUE]
  ELSE [out |-> "return", value |-> v1, live |-> Cycle(lv, FALSE, 0),
        hook |-> TRUE, update |-> TRUE]

\* ---------------------------------------------------------------- nllf
Outcome(o, v, lv, m) == [out |-> o, val |-> v, live |-> lv, model |-> m]

\* the except clauses of nllf: a KeyboardInterrupt is raised again, any other
\* exception gives inf
Caught(e, lv, m) ==
  IF e.kind = "interrupt" THEN Outcome("interrupt", 0, lv, m)
  ELSE Outcome("return", Inf, lv, m)

ModelNllfFirst(fn) == fn[1]

\* MultiFitProblem.model_nllf / BaseFitProblem.model_nllf
ModelNllf(fn) == SumSeq(fn)

\* the try block of nllf and the NaN test after it
EvalOp(lv, e) ==
  IF e.fail = "parameter" THEN Caught(e, lv, FALSE)
  ELSE IF e.fail = "constraints" THEN Caught(e, Cycle(lv, FALSE, 0), FALSE)
  ELSE
    LET pp == e.pparameter
        cc == e.pconstraint
        lv2 == Cycle(lv, FALSE, 0)
        evaluated == Le(Add(pp, cc), soft_limit)
    IN IF evaluated /\ e.fail = "model"
       THEN Caught(e, Cycle(lv2, TRUE, e.at), TRUE)
       ELSE LET pm == IF evaluated THEN ModelNllf(e.fnllf) ELSE PenaltyNllf
                cost == Add(Add(pp, cc), pm)
            IN Outcome("return", IF IsNan(cost) THEN Inf ELSE cost, lv2, evaluated)

\* nllf(pvec): given is FALSE for pvec=None
NllfOp(val, lv, given, pvec, e) ==
  IF given /\ ~Valid(parameters, pvec)
  THEN [out |-> "return", val |-> Inf, value |-> val, live |-> lv,
        assigned |-> FALSE, hook |-> FALSE, update |-> FALSE, model |-> FALSE]
  ELSE
    LET s == IF given THEN SetpOp(val, lv, pvec, e)
             ELSE [out |-> "return", value |-> val, live |-> lv,
                   hook |-> FALSE, update |-> FALSE]
        r == IF s.out = "return" THEN EvalOp(s.live, e)
             ELSE Outcome(s.out, 0, s.live, FALSE)
    IN [out |-> r.out, val |-> r.val, value |-> s.value, live |-> r.live,
        assigned |-> given, hook |-> s.hook, update |-> s.update, model |-> r.model]

\* problem.nllf(pvec) or problem.nllf()
Nllf(given, pvec, e) ==
  /\ pc = "ready"
  /\ rs.pc = "idle"
  /\ \E r \in {NllfOp(value, live, given, pvec, e)} :
     /\ value' = r.value
     /\ live' = r.live
     /\ last' = [op |-> "nllf", out |-> r.out, val |-> r.val, given |-> given,
                  pvec |-> pvec, env |-> e, assigned |-> r.assigned, hook |-> r.hook,
                  update |-> r.update, model |-> r.model, touched |-> <<>>,
                  args |-> <<>>, steps |-> {}, cleanup |-> "none"]
  /\ UNCHANGED <<pc, kind, nmodels, weights, numpoints, varying, parameters, dof,
                 sub_dof, active, soft_limit, data, rvars>>

\* problem.setp(pvec)
Setp(pvec, e) ==
  /\ pc = "ready"
  /\ rs.pc = "idle"
  /\ \E s \in {SetpOp(value, live, pvec, e)} :
     /\ value' = s.value
     /\ live' = s.live
     /\ last' = [NoLast EXCEPT !.op = "setp", !.out = s.out, !.given = TRUE,
                               !.pvec = pvec, !.env = e, !.assigned = TRUE,
                               !.hook = s.hook, !.update = s.update]
  /\ UNCHANGED <<pc, kind, nmodels, weights, numpoints, varying, parameters, dof,
                 sub_dof, active, soft_limit, data, rvars>>

\* p.bounds.random(1)[0] for each varying parameter: points inside the bounds
RandomVectors(k) == [1..k -> 0..(MaxVal - 1)]

\* A problem as its constructor leaves it
Constructed(k, n, wgiven, w, soft) ==
  LET b == Build(k, n, wgiven, w) IN
  /\ b.ok
  /\ pc = "ready"
  /\ kind = k
  /\ nmodels = n
  /\ weights = b.weights
  /\ parameters = b.parameters
  /\ dof = b.dof
  /\ sub_dof = b.sub_dof
  /\ live = b.live
  /\ active = b.active
  /\ soft_limit = soft
  /\ data = "orig"
  /\ last = [NoLast EXCEPT !.op = "init", !.out = "return"]

NoResult == res = "none" /\ solution = <<>> /\ points = <<>> /\ rs = NoRs

\* Every fitness has MaxPoints points; the last parameter is fixed or varying,
\* the others vary; every parameter starts at the point outside its bounds.
Init ==
  /\ numpoints = [i \in 1..MaxModels |-> MaxPoints]
  /\ varying \in {vy \in [Pars -> BOOLEAN] : \A p \in Pars : p < NPar => vy[p]}
  /\ value = [p \in Pars |-> MaxVal]
  /\ \E soft \in {Inf, SoftLimit} :
       \/ Constructed("single", 1, FALSE, <<>>, soft)
       \/ Constructed("multi", MaxModels, FALSE, <<>>, soft)
  /\ NoResult

\* An invalid vector is rejected before any external code runs: one
\* environment stands for all.  What the external code does is independent of
\* the vector: every environment is met with the valid vectors that hold one
\* sample point in all components.
Next ==
  \/ \E pvec \in VectorsT[Len(parameters)] :
       \E e \in (IF Valid(parameters, pvec) /\ (\A i \in 1..Len(pvec) : pvec[i] = pvec[1])
                 THEN NllfEnvsT[nmodels] ELSE {Quiet(nmodels)}) :
         Nllf(TRUE, pvec, e)
  \/ \E e \in EvalEnvsT[nmodels] : Nllf(FALSE, <<>>, e)
  \/ \E pvec \in VectorsT[Len(parameters)] : Setp(pvec, Quiet(nmodels))

Spec == Init /\ [][Next]_vars

\* --------------------------------------------------- composite iteration
\* for f in self.models, run to its end or stopped by an exception at
\* sub-model at: the sub-models touched (0-based) with the binding live at
\* each, and the binding live afterwards
Touches(k, lv) == [j \in 1..k |-> [model |-> j - 1, live |-> lv[j]]]

IterModels(n, stopped, at) ==
  LET k == IF stopped THEN at + 1 ELSE n
  IN [touched |-> Touches(k, [j \in 1..k |-> j - 1]),
      live |-> IF stopped THEN at ELSE active]

\* zip(self.weights, self.models): the list of pairs is built before any
\* sub-model is used.  zip asks the weights first, so with as many weights as
\* models, or fewer, it stops without resuming the generator after its last
\* yield: the last binding made stays live.  Only with more weights than
\* models the generator runs to its end.
ZipModels(w, n, lv) ==
  LET k == Min(Len(w), n)
      after == IF Len(w) > n THEN active ELSE IF k = 0 THEN lv ELSE k - 1
  IN [touched |-> Touches(k, [j \in 1..k |-> after]), live |-> after]

\* the operations of MultiFitProblem that loop over self.models
IterOps == {"model_update", "model_nllf", "model_points", "constraints_nllf",
            "resynth_data", "restore_data", "save"}

\* the environment of a loop: no failure and what each fitness.nllf() returns,
\* or an exception at sub-model at
IterEnvs(n) ==
  {Env("none", "raise", 0, 0, 0, fn) : fn \in FnCosts(n)}
    \cup {Env("iter", "raise", a, 0, 0, Ones(n)) : a \in 0..(n - 1)}

\* the data after the loop of resynth_data or restore_data; synth tells what
\* a fitness that raised left behind
DataAfter(op, stopped, synth) ==
  IF op = "resynth_data" THEN (IF stopped /\ ~synth THEN data ELSE "synth")
  ELSE IF op = "restore_data" THEN (IF stopped THEN data ELSE "orig")
  ELSE data

\* model_update(), model_nllf(), model_points(), constraints_nllf(),
\* resynth_data(), restore_data(), save(basename) of a MultiFitProblem
IterCall(op, e, synth) ==
  /\ pc = "ready" /\ kind = "multi"
  /\ rs.pc = "idle"
  /\ \E r \in {IterModels(nmodels, e.fail = "iter", e.at)} :
       /\ live' = r.live
       /\ last' = [NoLast EXCEPT !.op = op, !.env = e, !.touched = r.touched,
                     !.out = IF e.fail = "iter" THEN "raise" ELSE "return",
                     !.val = IF op = "model_nllf" /\ e.fail # "iter"
                             THEN ModelNllf(e.fnllf) ELSE 0]
  /\ data' = DataAfter(op, e.fail = "iter", synth)
  /\ UNCHANGED <<pc, kind, nmodels, weights, numpoints, varying, value, parameters,
                 dof, sub_dof, active, soft_limit, rvars>>

\* what each sub-model's residuals() returns: one residual per sub-model
ResidEnvs(n) == [1..n -> {1, 3}]

\* MultiFitProblem.residuals(): the weighted residuals of the pairs of zip
Residuals(rr) ==
  /\ pc = "ready" /\ kind = "multi"
  /\ rs.pc = "idle"
  /\ \E r \in {ZipModels(weights, nmodels, live)} :
       /\ live' = r.live
       /\ last' = [NoLast EXCEPT !.op = "residuals", !.out = "return",
                     !.touched = r.touched, !.args = rr,
                     !.pvec = [j \in 1..Len(r.touched) |-> weights[j] * rr[j]]]
  /\ UNCHANGED <<pc, kind, nmodels, weights, numpoints, varying, value, parameters,
                 dof, sub_dof, active, soft_limit, data, rvars>>

\* set_active_model(i)
SetActiveModel(i) ==
  /\ pc = "ready" /\ kind = "multi"
  /\ rs.pc = "idle"
  /\ active' = i
  /\ live' = i
  /\ last' = [NoLast EXCEPT !.op = "set_active_model", !.out = "return"]
  /\ UNCHANGED <<pc, kind, nmodels, weights, numpoints, varying, value, parameters,
                 dof, sub_dof, soft_limit, data, rvars>>

\* MultiFitProblems as the constructor leaves them, with default or explicit weights
InitComposite ==
  /\ numpoints = [i \in 1..MaxModels |-> MaxPoints]
  /\ varying = [p \in Pars |-> TRUE]
  /\ value = [p \in Pars |-> 0]
  /\ \E n \in 1..MaxModels :
       \/ Constructed("multi", n, FALSE, <<>>, Inf)
       \/ \E w \in WeightArgs : Constructed("multi", n, TRUE, w, Inf)
  /\ NoResult

NextComposite ==
  \/ \E i \in 0..(nmodels - 1) : SetActiveModel(i)
  \/ \E op \in IterOps, e \in IterEnvs(nmodels), synth \in BOOLEAN : IterCall(op, e, synth)
  \/ \E rr \in ResidEnvs(nmodels) : Residuals(rr)

SpecComposite == InitComposite /\ [][NextComposite]_vars

\* ---------------------------------------------------------------- Result
Row(c, x) == [nllf |-> c, x |-> x]

\* the environments of the calls a Result makes
SetpEnvsSmall(n) ==
  {Quiet(n), Env("update", "raise", 0, 0, 0, Ones(n)),
   Env("hook", "interrupt", 0, 0, 0, Ones(n))}

EvalEnvsSmall(n) ==
  SetpEnvsSmall(n)
    \cup {Env("none", "raise", 0, 0, 0, fn) : fn \in FnCosts(n)}
    \cup {Env("model", k, 0, 0, 0, Ones(n)) : k \in Kinds}

\* the vectors with the same sample point in every component
Uniform(k) == {[i \in 1..k |-> c] : c \in Vals}

\* Result(problem, solution): one nllf(solution) seeds row 0 of points
NewResult(sol, e) ==
  /\ pc = "ready" /\ res = "none" /\ rs.pc = "idle"
  /\ \E r \in {NllfOp(value, live, TRUE, sol, e)} :
       /\ value' = r.value
       /\ live' = r.live
       /\ last' = [op |-> "result_init", out |-> r.out, val |-> r.val, given |-> TRUE,
                   pvec |-> sol, env |-> e, assigned |-> r.assigned, hook |-> r.hook,
                   update |-> r.update, model |-> r.model, touched |-> <<>>,
                   args |-> <<>>, steps |-> {}, cleanup |-> "none"]
       /\ IF r.out = "return"
          THEN res' = "built" /\ solution' = sol /\ points' = <<Row(r.val, sol)>>
          ELSE UNCHANGED <<res, solution, points>>
  /\ UNCHANGED <<pc, kind, nmodels, weights, numpoints, varying, parameters, dof,
                 sub_dof, active, soft_limit, data, rs>>

\* int(samples / 10): true division, truncated toward zero
DefaultBurnin(samples) ==
  IF samples >= 0 THEN samples \div 10 ELSE -((-samples) \div 10)

\* the rows the sampler returns for N samples started at x0 and x1: the chain
\* alternates between the two points, the density of row i is i
SamplerRows(N, x0, x1) ==
  [i \in 1..(IF N > 0 THEN N ELSE 0) |-> Row(i, IF i % 2 = 1 THEN x0 ELSE x1)]

VstackReplace(a, b) == b

\* numpy.vstack of the rows held and the new rows
Vstack(a, b) == a \o b

\* points[burnin:]
DropRows(rows, burnin) ==
  IF burnin >= Len(rows) THEN <<>> ELSE SubSeq(rows, burnin + 1, Len(rows))

RejectedStrict(samples, burnin) == burnin > samples

\* if burnin >= samples: raise ValueError
Rejected(samples, burnin) == burnin >= samples

\* mcmc(samples, burnin): what it does to the parameters, the live binding and
\* the points.  rv is the point randomize() draws, e1 the environment of
\* randomize, run how the sampler ends, e2 the environment of the last setp.
McmcOp(samples, bgiven, b, rv, e1, run, e2) ==
  LET burnin == IF bgiven THEN b ELSE DefaultBurnin(samples)
      s1 == SetpOp(value, live, rv, e1)
      x1 == Getp(s1.value, parameters)
      rows == SamplerRows(samples, solution, x1)
      s2 == SetpOp(s1.value, s1.live, solution, e2)
  IN IF Rejected(samples, burnin)
     THEN [out |-> "raise", value |-> value, live |-> live, points |-> points,
           burnin |-> burnin, steps |-> {}]
     ELSE IF s1.out # "return"
     THEN [out |-> s1.out, value |-> s1.value, live |-> s1.live, points |-> points,
           burnin |-> burnin, steps |-> {"walker", "randomize"}]
     ELSE IF run # "ok"
     THEN [out |-> run, value |-> s1.value, live |-> s1.live, points |-> points,
           burnin |-> burnin, steps |-> {"walker", "randomize", "run"}]
     ELSE [out |-> s2.out, value |-> s2.value, live |-> s2.live,
           points |-> Vstack(points, DropRows(rows, burnin)),
           burnin |-> burnin, steps |-> {"walker", "randomize", "run", "setp"}]

Mcmc(samples, bgiven, b, rv, e1, run, e2) ==
  /\ pc = "ready" /\ res = "built" /\ rs.pc = "idle"
  /\ Len(points) + samples <= MaxRows
  /\ \E r \in {McmcOp(samples, bgiven, b, rv, e1, run, e2)} :
       /\ value' = r.value
       /\ live' = r.live
       /\ points' = r.points
       /\ last' = [NoLast EXCEPT !.op = "mcmc", !.out = r.out, !.given = bgiven,
                     !.args = <<samples, r.burnin>>, !.steps = r.steps]
  /\ UNCHANGED <<pc, kind, nmodels, weights, numpoints, varying, parameters, dof,
                 sub_dof, active, soft_limit, data, res, solution, rs>>

\* ------------------------------------------------------------- resample
Outcomes == {"ok", "raise", "interrupt"}

\* the steps of one iteration of the loop
LoopSteps == {"resynth", "reset", "solve", "eval"}

\* resample(samples, restart, fitter): opt = fitter(problem); points = []
ResampleStart(samples, restart) ==
  /\ pc = "ready" /\ res = "built" /\ rs.pc = "idle"
  /\ Len(points) + samples <= MaxRows
  /\ rs' = [NoRs EXCEPT !.pc = IF samples > 0 THEN "resynth" ELSE "finish",
                        !.samples = samples, !.restart = restart]
  /\ last' = [NoLast EXCEPT !.op = "resample", !.out = "running"]
  /\ UNCHANGED <<pc, kind, nmodels, weights, numpoints, varying, value, parameters,
                 dof, sub_dof, live, active, soft_limit, data, res, solution, points>>

Stop(stage, k) == Env(stage, k, 0, 0, 0, <<>>)

LeaveUncaught(stage, o) ==
  /\ rs' = NoRs
  /\ last' = [NoLast EXCEPT !.op = "resample", !.out = o, !.env = Stop(stage, o),
                            !.args = <<rs.samples, rs.i>>]

\* A step of the loop ends with an exception o.  except KeyboardInterrupt:
\* pass leads to the code after the loop; any other exception leaves resample.
Leave(stage, o) ==
  IF o = "interrupt"
  THEN rs' = [rs EXCEPT !.pc = "finish", !.stop = stage] /\ UNCHANGED last
  ELSE /\ rs' = NoRs
       /\ last' = [NoLast EXCEPT !.op = "resample", !.out = "raise",
                                 !.env = Stop(stage, "raise"),
                                 !.args = <<rs.samples, rs.i>>]

\* self.problem.resynth_data(); a fitness that raises does so before it
\* changes its data
RsResynth(o) ==
  /\ rs.pc = "resynth"
  /\ IF o = "ok"
     THEN /\ data' = "synth"
          /\ live' = Cycle(live, FALSE, 0)
          /\ rs' = [rs EXCEPT !.pc = "reset"]
          /\ UNCHANGED last
     ELSE /\ live' = Cycle(live, TRUE, 0)
          /\ Leave("resynth", o)
          /\ UNCHANGED data
  /\ UNCHANGED <<pc, kind, nmodels, weights, numpoints, varying, value, parameters,
                 dof, sub_dof, active, soft_limit, res, solution, points>>

\* self.problem.randomize() if restart, else self.problem.setp(self.solution)
RsReset(rv, e) ==
  /\ rs.pc = "reset"
  /\ \E s \in {SetpOp(value, live, IF rs.restart THEN rv ELSE solution, e)} :
       /\ value' = s.value
       /\ live' = s.live
       /\ IF s.out = "return"
          THEN rs' = [rs EXCEPT !.pc = "solve"] /\ UNCHANGED last
          ELSE Leave("reset", s.out)
  /\ UNCHANGED <<pc, kind, nmodels, weights, numpoints, varying, parameters, dof,
                 sub_dof, active, soft_limit, data, res, solution, points>>

\* what the local optimizer returns: the point it started from, the first
\* point inside the bounds, or the point outside them
SolveResults ==
  {Getp(value, parameters)} \cup {[i \in 1..Len(parameters) |-> c] : c \in {0, MaxVal}}

\* x = opt.solve(**kw): the optimizer leaves the problem at x
RsSolve(o, x) ==
  /\ rs.pc = "solve"
  /\ IF o = "ok"
     THEN /\ value' = Assign(value, parameters, x)
          /\ rs' = [rs EXCEPT !.pc = "eval", !.x = x]
          /\ UNCHANGED last
     ELSE /\ Leave("solve", o)
          /\ UNCHANGED value
  /\ UNCHANGED <<pc, kind, nmodels, weights, numpoints, varying, parameters, dof,
                 sub_dof, live, active, soft_limit, data, res, solution, points>>

\* nllf = self.problem.nllf(x); points.append(numpy.hstack((nllf, x)))
RsEval(e) ==
  /\ rs.pc = "eval"
  /\ \E r \in {NllfOp(value, live, TRUE, rs.x, e)} :
       /\ value' = r.value
       /\ live' = r.live
       /\ IF r.out = "return"
          THEN /\ rs' = [rs EXCEPT !.pts = Append(rs.pts, Row(r.val, rs.x)),
                                   !.i = rs.i + 1, !.x = <<>>,
                                   !.pc = IF rs.i + 1 < rs.samples THEN "resynth"
                                          ELSE "finish"]
               /\ UNCHANGED last
          ELSE Leave("eval", r.out)
  /\ UNCHANGED <<pc, kind, nmodels, weights, numpoints, varying, parameters, dof,
                 sub_dof, active, soft_limit, data, res, solution, points>>

\* the code after the loop: self.problem.restore_data(), then
\* self.problem.setp(self.solution).  o is how restore_data ends, e the
\* environment of setp.
CleanupOp(o, e) ==
  LET s == SetpOp(value, Cycle(live, FALSE, 0), solution, e)
  IN IF o # "ok"
     THEN [out |-> o, value |-> value, live |-> Cycle(live, TRUE, 0), data |-> data,
           steps |-> {}]
     ELSE [out |-> s.out, value |-> s.value, live |-> s.live, data |-> "orig",
           steps |-> {"restore_data", "setp"}]

\* self.points = numpy.vstack([self.points] + points) and the restoration
RsFinish(o, e) ==
  /\ rs.pc = "finish"
  /\ points' = Vstack(points, rs.pts)
  /\ \E c \in {CleanupOp(o, e)} :
       /\ value' = c.value
       /\ live' = c.live
       /\ data' = c.data
       /\ last' = [NoLast EXCEPT !.op = "resample", !.out = c.out,
                     !.env = Stop(rs.stop, IF rs.stop = "none" THEN "raise" ELSE "interrupt"),
                     !.args = <<rs.samples, rs.i>>, !.steps = c.steps,
                     !.cleanup = IF c.out = "return" THEN "quiet" ELSE "failed"]
  /\ rs' = NoRs
  /\ UNCHANGED <<pc, kind, nmodels, weights, numpoints, varying, parameters, dof,
                 sub_dof, active, soft_limit, res, solution>>

\* burnin=None, or an explicit burnin
BurninArgs ==
  {[given |-> FALSE, burnin |-> 0]} \cup {[given |-> TRUE, burnin |-> b] : b \in 0..MaxSamples}

\* the environments of one mcmc call: after a step that fails the later steps
\* do not run, so one environment stands for all of them
McmcEnvs ==
  LET n == nmodels
      q == Quiet(n)
      M(rv, e1, run, e2) == [rv |-> rv, e1 |-> e1, run |-> run, e2 |-> e2]
  IN UNION {
       {M(rv, e1, "ok", q) : e1 \in SetpEnvsSmall(n) \ {q}}
         \cup {M(rv, q, run, q) : run \in Outcomes \ {"ok"}}
         \cup {M(rv, q, "ok", e2) : e2 \in SetpEnvsSmall(n)}
       : rv \in RandomVectors(Len(parameters)) \cap Uniform(Len(parameters))}

\* A problem as its constructor leaves it, with no Result yet
InitResult ==
  /\ numpoints = [i \in 1..MaxModels |-> MaxPoints]
  /\ varying = [p \in Pars |-> TRUE]
  /\ value = [p \in Pars |-> MaxVal]
  /\ \/ Constructed("single", 1, FALSE, <<>>, Inf)
     \/ \E n \in 1..MaxModels : Constructed("multi", n, FALSE, <<>>, Inf)
  /\ NoResult

\* the rejected calls run no external code: one environment stands for all
McmcEnvsFor(samples, a) ==
  IF (IF a.given THEN a.burnin ELSE DefaultBurnin(samples)) >= samples
  THEN {[rv |-> [i \in 1..Len(parameters) |-> 0], e1 |-> Quiet(nmodels),
         run |-> "ok", e2 |-> Quiet(nmodels)]}
  ELSE McmcEnvs

\* a Result and its mcmc calls
NextMcmc ==
  \/ \E pvec \in Uniform(Len(parameters)) : Setp(pvec, Quiet(nmodels))
  \/ \E sol \in Uniform(Len(parameters)), e \in EvalEnvsSmall(nmodels) : NewResult(sol, e)
  \/ \E samples \in (-1)..MaxSamples, a \in BurninArgs :
       \E m \in McmcEnvsFor(samples, a) :
         Mcmc(samples, a.given, a.burnin, m.rv, m.e1, m.run, m.e2)

SpecMcmc == InitResult /\ [][NextMcmc]_vars

\* a Result and its resample calls
NextResample ==
  \/ \E pvec \in Uniform(Len(parameters)) : Setp(pvec, Quiet(nmodels))
  \/ \E sol \in Uniform(Len(parameters)), e \in EvalEnvsSmall(nmodels) : NewResult(sol, e)
  \/ \E samples \in 0..MaxSamples, restart \in BOOLEAN : ResampleStart(samples, restart)
  \/ \E o \in Outcomes : RsResynth(o)
  \/ \E rv \in RandomVectors(Len(parameters)) \cap Uniform(Len(parameters)),
        e \in SetpEnvsSmall(nmodels) : RsReset(rv, e)
  \/ \E o \in Outcomes, x \in SolveResults : RsSolve(o, x)
  \/ \E e \in EvalEnvsSmall(nmodels) : RsEval(e)
  \/ \E o \in Outcomes, e \in SetpEnvsSmall(nmodels) : RsFinish(o, e)

SpecResample == InitResult /\ [][NextResample]_vars

\* A single-fitness problem as its constructor leaves it, with no Result yet
InitEnsemble ==
  /\ numpoints = [i \in 1..MaxModels |-> MaxPoints]
  /\ varying = [p \in Pars |-> TRUE]
  /\ value = [p \in Pars |-> MaxVal]
  /\ Constructed("single", 1, FALSE, <<>>, Inf)
  /\ NoResult

\* mcmc(samples) and mcmc(samples, burnin=1)
EnsembleBurnin == {[given |-> FALSE, burnin |-> 0], [given |-> TRUE, burnin |-> 1]}

\* a Result and any sequence of mcmc and resample calls on it
NextEnsemble ==
  \/ \E sol \in Uniform(Len(parameters)), e \in EvalEnvsSmall(nmodels) : NewResult(sol, e)
  \/ \E samples \in 0..MaxSamples, a \in EnsembleBurnin :
       \E m \in McmcEnvsFor(samples, a) :
         Mcmc(samples, a.given, a.burnin, m.rv, m.e1, m.run, m.e2)
  \/ \E samples \in 0..MaxSamples, restart \in BOOLEAN : ResampleStart(samples, restart)
  \/ \E o \in Outcomes : RsResynth(o)
  \/ \E rv \in RandomVectors(Len(parameters)) \cap Uniform(Len(parameters)),
        e \in SetpEnvsSmall(nmodels) : RsReset(rv, e)
  \/ \E o \in Outcomes, x \in SolveResults : RsSolve(o, x)
  \/ \E e \in EvalEnvsSmall(nmodels) : RsEval(e)
  \/ \E o \in Outcomes, e \in SetpEnvsSmall(nmodels) : RsFinish(o, e)

SpecEnsemble == InitEnsemble /\ [][NextEnsemble]_vars

\* ------------------------------------------- the operations and the dof
\* problem.randomize(): setp of a random point inside the bounds
Randomize(rv, e) ==
  /\ pc = "ready" /\ rs.pc = "idle"
  /\ \E s \in {SetpOp(value, live, rv, e)} :
       /\ value' = s.value
       /\ live' = s.live
       /\ last' = [NoLast EXCEPT !.op = "randomize", !.out = s.out, !.pvec = rv,
                                 !.env = e, !.assigned = TRUE, !.hook = s.hook,
                                 !.update = s.update]
  /\ UNCHANGED <<pc, kind, nmodels, weights, numpoints, varying, parameters, dof,
                 sub_dof, active, soft_limit, data, rvars>>

\* how x / self.dof ends: with dof = 0 a Python float raises
\* ZeroDivisionError and a numpy float gives inf or nan
Divided(out) == IF out = "return" /\ dof = 0 THEN {"return", "raise"} ELSE {out}

\* problem(pvec): 2 * self.nllf(pvec) / self.dof
Call(pvec, e) ==
  /\ pc = "ready" /\ rs.pc = "idle"
  /\ \E r \in {NllfOp(value, live, TRUE, pvec, e)} :
       /\ value' = r.value
       /\ live' = r.live
       /\ \E o \in Divided(r.out) :
            last' = [NoLast EXCEPT !.op = "call", !.out = o, !.given = TRUE,
                                   !.pvec = pvec, !.env = e, !.assigned = r.assigned,
                                   !.hook = r.hook, !.update = r.update,
                                   !.model = r.model]
  /\ UNCHANGED <<pc, kind, nmodels, weights, numpoints, varying, parameters, dof,
                 sub_dof, active, soft_limit, data, rvars>>

\* chisq(): numpy.sum(self.residuals()**2) / self.dof
Chisq ==
  /\ pc = "ready" /\ rs.pc = "idle"
  /\ live' = IF kind = "multi" THEN ZipModels(weights, nmodels, live).live ELSE live
  /\ \E o \in Divided("return") : last' = [NoLast EXCEPT !.op = "chisq", !.out = o]
  /\ UNCHANGED <<pc, kind, nmodels, weights, numpoints, varying, value, parameters,
                 dof, sub_dof, active, soft_limit, data, rvars>>

\* getp() and valid(pvec) read the parameters and change nothing
Queries == {"getp", "valid"}

Query(op) ==
  /\ pc = "ready" /\ rs.pc = "idle"
  /\ last' = [NoLast EXCEPT !.op = op, !.out = "return"]
  /\ UNCHANGED <<pc, kind, nmodels, weights, numpoints, varying, value, parameters,
                 dof, sub_dof, live, active, soft_limit, data, rvars>>

\* residuals(), resynth_data() and restore_data() of a BaseFitProblem: one
\* call on the fitness; o tells how it ends
FitnessOps == {"residuals", "resynth_data", "restore_data"}

FitnessCall(op, o) ==
  /\ pc = "ready" /\ kind = "single" /\ rs.pc = "idle"
  /\ data' = IF o # "ok" \/ op = "residuals" THEN data
             ELSE IF op = "resynth_data" THEN "synth" ELSE "orig"
  /\ last' = [NoLast EXCEPT !.op = op, !.out = IF o = "ok" THEN "return" ELSE o]
  /\ UNCHANGED <<pc, kind, nmodels, weights, numpoints, varying, value, parameters,
                 dof, sub_dof, live, active, soft_limit, rvars>>

\* Problems as the constructor leaves them, with as many points per fitness
\* as there are parameters, or more
InitFrame ==
  /\ numpoints \in {[i \in 1..MaxModels |-> c] : c \in {NPar, MaxPoints}}
  /\ varying \in {vy \in [Pars -> BOOLEAN] : \A p \in Pars : p < NPar => vy[p]}
  /\ value = [p \in Pars |-> 0]
  /\ \/ Constructed("single", 1, FALSE, <<>>, Inf)
     \/ Constructed("multi", MaxModels, FALSE, <<>>, Inf)
  /\ NoResult

\* every operation of a problem, with the bounds of the last parameter
\* changing between the calls
NextFrame ==
  \/ ModelReset
  \/ SetBounds(NPar)
  \/ \E pvec \in Uniform(Len(parameters)) : Setp(pvec, Quiet(nmodels))
  \/ \E pvec \in Uniform(Len(parameters)), e \in EvalEnvsSmall(nmodels) : Nllf(TRUE, pvec, e)
  \/ \E pvec \in Uniform(Len(parameters)), e \in EvalEnvsSmall(nmodels) : Call(pvec, e)
  \/ \E rv \in RandomVectors(Len(parameters)) \cap Uniform(Len(parameters)),
        e \in SetpEnvsSmall(nmodels) : Randomize(rv, e)
  \/ Chisq
  \/ \E op \in Queries : Query(op)
  \/ \E op \in FitnessOps, o \in Outcomes : FitnessCall(op, o)
  \/ \E rr \in ResidEnvs(nmodels) : Residuals(rr)
  \/ \E op \in {"resynth_data", "restore_data"}, e \in IterEnvs(nmodels), synth \in BOOLEAN :
       IterCall(op, e, synth)

SpecFrame == InitFrame /\ [][NextFrame]_vars

\* ================================================================ claims
\* the last call was nllf(pvec) with a vector
NllfCalled == last.op = "nllf" /\ last.given

\* some component of the vector lies outside its parameter's bounds
SomeOutside(pvec) == \E i \in 1..Len(pvec) : pvec[i] \notin 0..(MaxVal - 1)

\* C1: nllf(vector) always returns a value and never raises: an exception in
\* any step of the evaluation (setp with its hook and update, the priors, the
\* constraints, the model nllf) gives +infinity, and the value returned is
\* never NaN.
C1_NllfNeverRaises ==
  last.op = "nllf" =>
    /\ last.out # "raise"
    /\ (last.out = "return" => ~IsNan(last.val))

\* C2: for a vector with a component outside its bounds nllf returns
\* +infinity, assigns no parameter, runs neither the hook nor update() nor the
\* model's nllf, and leaves the parameter values as they were.
C2_InvalidRejected ==
  [][(last'.op = "nllf" /\ last'.given /\ SomeOutside(last'.pvec)) =>
       /\ last'.out = "return"
       /\ last'.val = Inf
       /\ ~last'.assigned /\ ~last'.hook /\ ~last'.update /\ ~last'.model
       /\ value' = value]_vars

C2_Witness ==
  /\ NllfCalled /\ SomeOutside(last.pvec)
  /\ \E i \in 1..Len(last.pvec) : last.pvec[i] \in 0..(MaxVal - 1)
  /\ last.val = Inf

\* the cost of the last call as the claim computes it from what the priors,
\* the constraints function and the fitness objects returned
C3_Evaluated ==
  LET s == Add(last.env.pparameter, last.env.pconstraint)
  IN s # NaN /\ soft_limit # NaN /\ s <= soft_limit

C3_PModel == IF C3_Evaluated THEN SumSeq(last.env.fnllf) ELSE PenaltyNllf

C3_Cost == Add(Add(last.env.pparameter, last.env.pconstraint), C3_PModel)

C4_BindingRestored ==
  (last.op \in IterOps \cup {"residuals"} /\ last.out = "return") =>
    /\ live = active
    /\ \A j \in 1..Len(last.touched) : last.touched[j].live = last.touched[j].model

\* a resample call has ended after a step of an iteration was cut short
ResampleLeft == last.op = "resample" /\ rs.pc = "idle" /\ last.env.fail \in LoopSteps

\* C5: when a KeyboardInterrupt ends the loop of resample in any step of an
\* iteration (resynth_data, the parameter reset, solve, the nllf evaluation),
\* after any number of complete iterations, the code after the loop runs; when
\* its own calls end quietly resample returns, restore_data() has run after
\* the last resynth_data() and getp() is the solution.
C5_InterruptRestores ==
  (ResampleLeft /\ last.env.kind = "interrupt") =>
    /\ last.cleanup # "none"
    /\ last.cleanup = "quiet" =>
         /\ last.out = "return"
         /\ last.steps = {"restore_data", "setp"}
         /\ data = "orig"
         /\ Getp(value, parameters) = solution

\* an interrupt in the evaluation of the second iteration, the data
\* resynthesized twice, and the restoration done
C5_Witness ==
  /\ ResampleLeft /\ last.env.kind = "interrupt" /\ last.env.fail = "eval"
  /\ last.args[2] >= 1
  /\ last.out = "return" /\ data = "orig" /\ Getp(value, parameters) = solution
  /\ Len(points) = 1 + last.args[2]

\* C6: when a step of an iteration of resample raises an exception other than
\* KeyboardInterrupt, the restoration has run when resample is left:
\* restore_data() was called and the parameters are the solution again.
C6_ErrorRestores ==
  (ResampleLeft /\ last.env.kind = "raise") =>
    /\ data = "orig"
    /\ Getp(value, parameters) = solution

\* C7: every CompositeProblem that exists has as many weights as models: the
\* constructor raises when an explicit weights sequence has another length.
C7_WeightsMatchModels ==
  (pc = "ready" /\ kind = "multi") => Len(weights) = nmodels

\* C8: every problem object that exists has dof > 0, its sub-models too, also
\* after a model_reset() call that raises.
C8_DofPositive ==
  pc = "ready" => (dof > 0 /\ \A i \in 1..Len(sub_dof) : sub_dof[i] > 0)

\* C9: a call of mcmc whose burnin (given, or int(samples / 10)) is not
\* smaller than samples raises before the walker is built, the problem
\* randomized or the sampler run, and changes neither the parameter values nor
\* the points.
C9_BurninRejected ==
  [][(last'.op = "mcmc" /\ last'.args[2] >= last'.args[1]) =>
       /\ last'.out = "raise"
       /\ last'.steps = {}
       /\ value' = value
       /\ points' = points]_vars

\* mcmc(samples, burnin=samples) rejected on a problem whose parameters are
\* not at the solution
C9_Witness ==
  /\ last.op = "mcmc" /\ last.out = "raise" /\ last.given
  /\ last.args[1] > 0 /\ last.args[2] = last.args[1]
  /\ Getp(value, parameters) # solution

\* a Result has just been constructed
ResultBuilt == last.op = "result_init" /\ res = "built"

\* C10: after Result(problem, solution), for every solution vector, getp() is
\* the solution.
C10_SeedSetsSolution ==
  ResultBuilt => Getp(value, parameters) = solution

\* C10 restricted to the solutions inside the bounds: after Result(problem,
\* solution) with valid(solution), getp() is the solution.
C10_ValidSeedSetsSolution ==
  (ResultBuilt /\ ~SomeOutside(solution)) => Getp(value, parameters) = solution

\* a Result built from a solution inside the bounds whose model evaluation
\* raised: the row is (inf, solution) and the parameters are the solution
C10_Witness ==
  /\ ResultBuilt /\ ~SomeOutside(solution)
  /\ last.env.fail = "model" /\ last.val = Inf
  /\ points = <<Row(Inf, solution)>>
  /\ Getp(value, parameters) = solution

\* the number of columns of a row of points: the nllf and the vector
Cols(row) == 1 + Len(row.x)

\* C11: after every step of any sequence of mcmc and resample calls on a
\* Result (complete, rejected or interrupted), points has at least one row,
\* every row has len(solution) + 1 columns, row 0 is (nllf, solution), and
\* the rows held before the step are a prefix of the rows held after it.
C11_PointsAppendOnly ==
  [][res' = "built" =>
       /\ Len(points') >= 1
       /\ \A i \in 1..Len(points') : Cols(points'[i]) = Len(solution') + 1
       /\ points'[1].x = solution'
       /\ res = "built" =>
            /\ solution' = solution
            /\ Len(points') >= Len(points)
            /\ SubSeq(points', 1, Len(points)) = points]_vars

\* a row of mcmc and then a row of resample appended after the seed row
C11_Witness ==
  /\ res = "built" /\ Len(points) = 3
  /\ points[1].x = solution
  /\ points[2] = Row(1, solution)
  /\ last.op = "resample" /\ last.out = "return" /\ last.args = <<1, 1>>

\* the number of varying parameters of sub-model i of a problem of two
C12_K(i) == Cardinality({p \in Pars : varying[p] /\ Owner(p, 2) = i})

\* a CompositeProblem of two sub-models has just been constructed
C12_TwoBuilt == pc = "ready" /\ kind = "multi" /\ nmodels = 2 /\ last.op = "init"

C13_WeightsScaleResiduals ==
  /\ last.op = "residuals" =>
       /\ Len(last.pvec) = nmodels
       /\ \A i \in 1..Len(last.pvec) : last.pvec[i] = weights[i] * last.args[i]
  /\ (last.op = "model_nllf" /\ last.out = "return") =>
       last.val = SumSeq(last.env.fnllf)

\* the operations that must leave dof alone
C14_FrameOps ==
  {"setp", "getp", "valid", "nllf", "call", "randomize", "chisq", "residuals",
   "resynth_data", "restore_data"}

====
